---- MODULE Spec2Model ----
(***************************************************************************)
(* A model of youlai_spider.py: the resumable crawl of hospitals, their    *)
(* main departments, sub departments and doctors, with its checkpoint file *)
(* (crawl_progress.json), its pending-doctor file (pending_doctors.json)   *)
(* and its CSV outputs.  One action is one step of main() between two      *)
(* points at which the process can die; the files are the state that       *)
(* survives a death.                                                       *)
(*                                                                         *)
(* The labels of the site are written in ASCII: LabelAll is the label      *)
(* U+5168 U+90E8 ("quanbu", all), LabelNoLimit is U+4E0D U+9650 ("buxian", *)
(* unlimited), NameInvalid is the prefix "wuxiao ID", NameTimeout is the   *)
(* prefix "fangwen chaoshi" of the hospital names set on a failed fetch.   *)
(***************************************************************************)
EXTENDS Integers, Sequences, FiniteSets

\* ------------------------------------------------------------------ bounds
\* The last hospital id of the range "Lo-MaxHospital" in the progress file.
MaxHospital == 3
\* The number of runs of main() in one behaviour (the first run and the
\* restarts after a crash, an abort or a completed run).
MaxRuns == 3

\* The number of times the page is re-rendered in one behaviour.
MaxRerenders == 2

\* The first id of the hospital range ("1-10099") and of the default progress.
Lo == 1

\* ------------------------------------------------------------------ labels
LabelAll == "ALL"
LabelNoLimit == "NOLIMIT"
NoSubName == "N/A"
NameNA == "N/A"
NameInvalid == "INVALID_ID"
NameTimeout == "TIMEOUT"
NameOk == "HOSPITAL"

Hospitals == Lo..MaxHospital

\* What the site answers for a hospital id: a page with a department filter,
\* a page without one, the "not found" page, or no page within the wait.
Statuses == {"ok", "nodept", "notFound", "timeout"}

\* The hospital of the example scenario answers "example": a page whose
\* filter lists the main departments A and "ALL", A without sub departments.
ExampleRange == <<Lo, Lo + 1>>

VARIABLES
    \* the site (fixed over a behaviour), the page the browser shows and the
    \* number of times it was re-rendered
    status, shownMains, shownSubs, shownDocs, rerenders,
    \* the files
    progFile, pendFile, unreadable, hospCsv, docCsv,
    \* main()'s locals
    pc, hospital_range_str, start_hospital_id, start_main_idx, start_sub_idx,
    existing_hospital_links, pending_targets, hospital_id,
    existing_links_this_hospital, n_main, i, main_dept_name,
    departments_to_process, k, sub_dept_index, t,
    \* history of the current run and of the behaviour
    runs, saved, visited, clicked, branchWork, discovered, startBatch,
    origin, window, startProg, discoveredAt, raised

site == <<status, rerenders, shownMains, shownSubs, shownDocs>>
files == <<progFile, pendFile, unreadable, hospCsv, docCsv>>
locals == <<hospital_range_str, start_hospital_id, start_main_idx, start_sub_idx,
            existing_hospital_links, pending_targets, hospital_id,
            existing_links_this_hospital, n_main, i, main_dept_name,
            departments_to_process, k, sub_dept_index, t>>
history == <<runs, saved, visited, clicked, branchWork, discovered,
             startBatch, origin, window, startProg, discoveredAt, raised>>
vars == <<site, files, pc, locals, history>>

\* ----------------------------------------------------------------- the site
\* driver.find_elements(*main_dept_selector) on the doctor list page.
CatalogMains(h) ==
    IF status[h] = "example" THEN <<"A", LabelAll>>
    ELSE IF status[h] # "ok" THEN <<>>
    ELSE IF h % 2 = 1 THEN <<LabelAll, "A", "B">> ELSE <<"A">>

\* driver.find_elements(*sub_dept_selector) after the click on a main department.
CatalogSubs(h, main) ==
    IF status[h] = "example" THEN <<>>
    ELSE IF h % 2 = 1
    THEN (IF main = "B" THEN <<LabelNoLimit, "x", "y">> ELSE <<>>)
    ELSE <<"x">>

Doc(h, n) == h * 10 + n

\* The doctor blocks (their href) listed after the click on a main department
\* (sub = NoSubName) or on one of its sub departments.
CatalogDocs(h, main, sub) ==
    IF status[h] = "example" THEN <<Doc(h, 1), Doc(h, 2)>>
    ELSE IF h % 2 = 1
    THEN CASE main = "A" -> <<Doc(h, 1), Doc(h, 2)>>
           [] main = "B" /\ sub = "y" -> <<Doc(h, 3)>>
           [] main = "B" -> <<Doc(h, 2), Doc(h, 3)>>
           [] OTHER -> <<Doc(h, 1), Doc(h, 2), Doc(h, 3)>>
    ELSE <<Doc(h, 1)>>

\* ------------------------------------------------------------------ helpers
Range(s) == {s[n] : n \in 1..Len(s)}

\* s[j] of a Python list: a negative index counts from the end.
PyAt(s, j) == IF j >= 0 THEN s[j + 1] ELSE s[Len(s) + j + 1]

\* "ALL" in main_departments[i].text
IsAllMain_never(label) == FALSE
IsAllMain(label) == label = LabelAll

\* sub_departments[j].text not in ["NOLIMIT", "ALL"]
IsSelectableSub(label) == label \notin {LabelNoLimit, LabelAll}

\* save_progress: the record written to the progress file.
save_progress(hid, main_index, sub_index, hospital_range) ==
    [hospital_range |-> hospital_range, current_hospital_id |-> hid,
     main_dept_index |-> main_index, sub_dept_index |-> sub_index]

\* The range "1-10099" of the default progress, cut to the hospitals of the
\* model.
DefaultRange == <<Lo, MaxHospital>>

\* The record load_progress returns for a progress file that is absent or
\* does not hold a complete JSON document.
DefaultProgress == save_progress(Lo, 0, 0, DefaultRange)

\* load_progress: the record of the progress file, or the default.
load_progress ==
    IF "progress" \in unreadable THEN DefaultProgress ELSE progFile

\* load_pending_doctors: the targets of the pending file, or none.
load_pending_doctors ==
    IF "pending" \in unreadable THEN <<>> ELSE pendFile

\* remove_doctor_from_pending: the targets written back.
RemoveFromPending_keep(targets, url) == targets
RemoveFromPending(targets, url) ==
    SelectSeq(targets, LAMBDA target : target.url # url)

\* load_existing_links_from_csv: the set of links of a CSV's rows.
load_existing_links_none(rows) == {}
load_existing_links(rows) == {rows[n].link : n \in 1..Len(rows)}

\* The hospital page's link (the key of the hospital CSV) is its id.
HospitalRow(h, name) == [link |-> h, name |-> name]

\* get_doctor_details: the row of a doctor.
DoctorRow(url, main_dept, hospital) ==
    [link |-> url, main_dept |-> main_dept, hospital |-> hospital]

\* scrape_hospital_info: <<the name, success>>.
scrape_hospital_info(h) ==
    CASE status[h] = "notFound" -> <<NameInvalid, FALSE>>
      [] status[h] = "timeout" -> <<NameTimeout, FALSE>>
      [] OTHER -> <<NameOk, TRUE>>

\* The name read from the page of a hospital already in the hospital CSV.
existing_hospital_name(h) ==
    IF status[h] \in {"ok", "nodept", "example"} THEN NameOk ELSE NameNA

\* "N/A" in name or "INVALID_ID" in name or "TIMEOUT" in name
IsInvalidName(name) == name \in {NameNA, NameInvalid, NameTimeout}

\* get_doctor_targets_optimized: the blocks whose url is not in the set.
NewTargets_unfiltered(blocks, existing) ==
    [n \in 1..Len(blocks) |-> [url |-> blocks[n]]]
NewTargets(blocks, existing) ==
    LET fresh == SelectSeq(blocks, LAMBDA url : url \notin existing)
    IN [n \in 1..Len(fresh) |-> [url |-> fresh[n]]]

\* departments_to_process of a main department.
DeptsToProcess(subs, start) ==
    IF Len(subs) <= 1 THEN << <<NoSubName, -1>> >>
    ELSE LET n == IF Len(subs) > start THEN Len(subs) - start ELSE 0
             all == [m \in 1..n |-> <<PyAt(subs, start + m - 1), start + m - 1>>]
         IN SelectSeq(all, LAMBDA d : IsSelectableSub(d[1]))

\* The hospital after hospital_id in range(start_hospital_id, end_range + 1).
NextHospital_same(h) == h
NextHospital(h) == h + 1

end_range_exclusive == hospital_range_str[2] - 1
end_range == hospital_range_str[2]

Running == {"entity", "fetch", "enum", "main", "sub", "save", "discover",
            "drain", "remove"}
Stopped == {"idle", "crashed", "aborted", "done"}

\* -------------------------------------------------------------------- Init
NoLocals ==
    /\ hospital_range_str = DefaultRange
    /\ start_hospital_id = Lo
    /\ start_main_idx = 0
    /\ start_sub_idx = 0
    /\ existing_hospital_links = {}
    /\ pending_targets = <<>>
    /\ hospital_id = Lo
    /\ existing_links_this_hospital = {}
    /\ n_main = 0
    /\ i = 0
    /\ main_dept_name = ""
    /\ departments_to_process = <<>>
    /\ k = 0
    /\ sub_dept_index = 0
    /\ t = 0

\* Nothing was crawled yet: empty outputs, no pending batch, no run.
Fresh ==
    /\ shownMains = <<>>
    /\ shownSubs = <<>>
    /\ shownDocs = <<>>
    /\ pendFile = <<>>
    /\ unreadable = {}
    /\ hospCsv = <<>>
    /\ docCsv = [h \in Hospitals |-> <<>>]
    /\ pc = "idle"
    /\ NoLocals
    /\ runs = 0
    /\ saved = <<>>
    /\ visited = <<>>
    /\ clicked = ""
    /\ branchWork = {}
    /\ discovered = FALSE
    /\ startBatch = <<>>
    /\ origin = "none"
    /\ window = [run |-> 0, batch |-> <<>>, hospital |-> Lo]
    /\ rerenders = 0
    /\ startProg = DefaultProgress
    /\ discoveredAt = {}
    /\ raised = "none"

Init ==
    /\ status \in [Hospitals -> Statuses]
    /\ progFile = DefaultProgress
    /\ Fresh

\* The example scenario: the range 1-2, hospital 1 with the main departments
\* A and "ALL", hospital 2 not found.
InitExample ==
    /\ status = [h \in Hospitals |-> IF h = Lo THEN "example" ELSE "notFound"]
    /\ progFile = save_progress(Lo, 0, 0, ExampleRange)
    /\ Fresh

\* ----------------------------------------------------------------- actions
FreshHistory ==
    /\ saved' = <<>>
    /\ visited' = <<>>
    /\ clicked' = ""
    /\ branchWork' = {}
    /\ discovered' = FALSE

\* main(), lines 329-347: a run starts from the files.
Start ==
    /\ pc \in Stopped
    /\ runs < MaxRuns
    /\ LET progress == load_progress
       IN /\ hospital_range_str' = progress.hospital_range
          /\ start_hospital_id' = progress.current_hospital_id
          /\ start_main_idx' = progress.main_dept_index
          /\ start_sub_idx' = progress.sub_dept_index
          /\ hospital_id' = progress.current_hospital_id
    /\ existing_hospital_links' = load_existing_links(hospCsv)
    /\ pending_targets' = load_pending_doctors
    /\ existing_links_this_hospital' = {}
    /\ n_main' = 0
    /\ i' = 0
    /\ main_dept_name' = ""
    /\ departments_to_process' = <<>>
    /\ k' = 0
    /\ sub_dept_index' = 0
    /\ t' = 0
    /\ pc' = "entity"
    /\ runs' = runs + 1
    /\ FreshHistory
    /\ startBatch' = load_pending_doctors
    /\ startProg' = load_progress
    /\ raised' = "none"
    /\ origin' = IF load_pending_doctors = <<>> THEN "none" ELSE "loaded"
    /\ UNCHANGED <<site, files, window, discoveredAt>>

\* Lines 365-367: the next hospital of the range; its progress is saved.
ForHospital ==
    /\ pc = "entity"
    /\ hospital_id <= end_range
    /\ progFile' = save_progress(hospital_id, 0, 0, hospital_range_str)
    /\ unreadable' = unreadable \ {"progress"}
    /\ saved' = Append(saved, <<hospital_id, 0, 0>>)
    /\ visited' = Append(visited, hospital_id)
    /\ pc' = "fetch"
    /\ UNCHANGED <<site, pendFile, hospCsv, docCsv, locals, runs, clicked,
                   branchWork, discovered, startBatch, startProg, discoveredAt, raised, origin, window>>

\* Line 365: the range is exhausted, the run ends.
RangeDone ==
    /\ pc = "entity"
    /\ hospital_id > end_range
    /\ pc' = "done"
    /\ UNCHANGED <<site, files, locals, history>>

\* Lines 369-387: the hospital's row is fetched and appended unless its link
\* is known; a failed fetch or an invalid name goes on to the next hospital.
SkipsHospital_never(success, name) == FALSE
SkipsHospital(success, name) == ~success \/ IsInvalidName(name)

Fetch ==
    /\ pc = "fetch"
    /\ LET known == hospital_id \in existing_hospital_links
           info == scrape_hospital_info(hospital_id)
           name == IF known THEN existing_hospital_name(hospital_id) ELSE info[1]
           success == IF known THEN TRUE ELSE info[2]
       IN /\ hospCsv' = IF known THEN hospCsv
                        ELSE Append(hospCsv, HospitalRow(hospital_id, info[1]))
          /\ IF SkipsHospital(success, name)
             THEN /\ hospital_id' = NextHospital(hospital_id)
                  /\ pc' = "entity"
             ELSE /\ hospital_id' = hospital_id
                  /\ pc' = "enum"
    /\ UNCHANGED <<site, progFile, pendFile, unreadable, docCsv, hospital_range_str, start_hospital_id,
                   start_main_idx, start_sub_idx, existing_hospital_links,
                   pending_targets, existing_links_this_hospital, n_main, i,
                   main_dept_name, departments_to_process, k, sub_dept_index,
                   t, history>>

\* Lines 389-407: the hospital's doctor links are loaded and its main
\* departments listed; without a department filter the hospital is left.
Enumerate ==
    /\ pc = "enum"
    /\ existing_links_this_hospital' = load_existing_links(docCsv[hospital_id])
    /\ shownMains' = CatalogMains(hospital_id)
    /\ shownSubs' = <<>>
    /\ shownDocs' = <<>>
    /\ branchWork' = branchWork \cup {hospital_id}
    /\ IF CatalogMains(hospital_id) = <<>>
       THEN /\ hospital_id' = NextHospital(hospital_id)
            /\ pc' = "entity"
            /\ UNCHANGED <<n_main, i>>
       ELSE /\ n_main' = Len(CatalogMains(hospital_id))
            /\ i' = start_main_idx
            /\ pc' = "main"
            /\ UNCHANGED hospital_id
    /\ UNCHANGED <<status, rerenders, files, hospital_range_str, start_hospital_id, start_main_idx,
                   start_sub_idx, existing_hospital_links, pending_targets,
                   main_dept_name, departments_to_process, k, sub_dept_index,
                   t, runs, saved, visited, clicked, discovered, startBatch, startProg, discoveredAt, raised,
                   origin, window>>

\* Lines 407, 464: the main departments are exhausted; the next hospital.
MainsDone ==
    /\ pc = "main"
    /\ i >= n_main
    /\ start_main_idx' = 0
    /\ hospital_id' = NextHospital(hospital_id)
    /\ pc' = "entity"
    /\ UNCHANGED <<site, files, hospital_range_str, start_hospital_id, start_sub_idx,
                   existing_hospital_links, pending_targets,
                   existing_links_this_hospital, n_main, i, main_dept_name,
                   departments_to_process, k, sub_dept_index, t, history>>

\* Lines 408-430: the list is read again; an "ALL" department is passed
\* over, any other is clicked and its sub departments are listed.  An index
\* beyond the list read again raises IndexError, which ends the run.
ForMain ==
    /\ pc = "main"
    /\ i < n_main
    /\ LET main_departments == shownMains
       IN IF i >= Len(main_departments)
          THEN /\ pc' = "aborted"
               /\ raised' = "IndexError"
               /\ UNCHANGED <<site, locals, clicked>>
          ELSE IF IsAllMain(main_departments[i + 1])
          THEN /\ i' = i + 1
               /\ pc' = "main"
               /\ UNCHANGED <<raised, site, hospital_range_str, start_hospital_id, start_main_idx,
                              start_sub_idx, existing_hospital_links,
                              pending_targets, hospital_id,
                              existing_links_this_hospital, n_main,
                              main_dept_name, departments_to_process, k,
                              sub_dept_index, t, clicked>>
          ELSE LET name == main_departments[i + 1]
                   sub_departments == CatalogSubs(hospital_id, name)
                   current_sub_start_idx ==
                       IF i = start_main_idx THEN start_sub_idx ELSE 0
               IN /\ main_dept_name' = name
                  /\ clicked' = name
                  /\ shownSubs' = sub_departments
                  /\ shownDocs' = CatalogDocs(hospital_id, name, NoSubName)
                  /\ departments_to_process' =
                         DeptsToProcess(sub_departments, current_sub_start_idx)
                  /\ k' = 0
                  /\ pc' = "sub"
                  /\ UNCHANGED <<raised, status, rerenders, shownMains,
                                 hospital_range_str, start_hospital_id,
                                 start_main_idx, start_sub_idx,
                                 existing_hospital_links, pending_targets,
                                 hospital_id, existing_links_this_hospital,
                                 n_main, i, sub_dept_index, t>>
    /\ UNCHANGED <<files, runs, saved, visited, branchWork, discovered,
                   startBatch, startProg, discoveredAt, origin, window>>

\* Lines 432, 462: the sub departments are exhausted; the next main department.
SubsDone ==
    /\ pc = "sub"
    /\ k >= Len(departments_to_process)
    /\ start_sub_idx' = 0
    /\ i' = i + 1
    /\ pc' = "main"
    /\ UNCHANGED <<site, files, hospital_range_str, start_hospital_id, start_main_idx,
                   existing_hospital_links, pending_targets, hospital_id,
                   existing_links_this_hospital, n_main, main_dept_name,
                   departments_to_process, k, sub_dept_index, t, history>>

\* Lines 432-443, 449: a sub department is clicked in the list read again
\* (one whose index is beyond that list is passed over); the pseudo sub
\* department "N/A" needs no click.
ForSub ==
    /\ pc = "sub"
    /\ k < Len(departments_to_process)
    /\ LET sub_dept_name == departments_to_process[k + 1][1]
           index == departments_to_process[k + 1][2]
           sub_depts_fresh == shownSubs
           goes == sub_dept_name = NoSubName \/ index < Len(sub_depts_fresh)
           label == PyAt(sub_depts_fresh, index)
       IN /\ sub_dept_index' = index
          /\ IF ~goes
             THEN /\ k' = k + 1
                  /\ pc' = "sub"
                  /\ UNCHANGED <<site, clicked, t>>
             ELSE /\ IF sub_dept_name = NoSubName
                     THEN UNCHANGED <<site, clicked>>
                     ELSE /\ clicked' = label
                          /\ shownDocs' =
                                 CatalogDocs(hospital_id, main_dept_name, label)
                          /\ UNCHANGED <<status, rerenders, shownMains, shownSubs>>
                  /\ k' = k
                  /\ t' = 0
                  /\ pc' = IF pending_targets = <<>> THEN "save" ELSE "drain"
    /\ UNCHANGED <<files, hospital_range_str, start_hospital_id, start_main_idx, start_sub_idx,
                   existing_hospital_links, pending_targets, hospital_id,
                   existing_links_this_hospital, n_main, i, main_dept_name,
                   departments_to_process, runs, saved, visited, branchWork,
                   discovered, startBatch, startProg, discoveredAt, raised, origin, window>>

\* Line 444: the position of the sub department is saved before discovery.
SaveSubProgress ==
    /\ pc = "save"
    /\ progFile' = save_progress(hospital_id, i, sub_dept_index,
                                 hospital_range_str)
    /\ unreadable' = unreadable \ {"progress"}
    /\ saved' = Append(saved, <<hospital_id, i, sub_dept_index>>)
    /\ pc' = "discover"
    /\ UNCHANGED <<site, pendFile, hospCsv, docCsv, locals, runs, visited,
                   clicked, branchWork, discovered, startBatch, startProg, discoveredAt, raised, origin, window>>

\* Lines 446-447: discovery; the new targets are saved as the pending batch.
Discover ==
    /\ pc = "discover"
    /\ pending_targets' = NewTargets(shownDocs, existing_links_this_hospital)
    /\ pendFile' = NewTargets(shownDocs, existing_links_this_hospital)
    /\ unreadable' = unreadable \ {"pending"}
    /\ discoveredAt' = discoveredAt \cup {<<hospital_id, i, sub_dept_index>>}
    /\ discovered' = TRUE
    /\ branchWork' = branchWork \cup {hospital_id}
    /\ origin' = "discovered"
    /\ t' = 0
    /\ pc' = "drain"
    /\ UNCHANGED <<site, progFile, hospCsv, docCsv, hospital_range_str, start_hospital_id,
                   start_main_idx, start_sub_idx, existing_hospital_links,
                   hospital_id, existing_links_this_hospital, n_main, i,
                   main_dept_name, departments_to_process, k, sub_dept_index,
                   runs, saved, visited, clicked, startBatch, startProg, raised, window>>

\* Lines 451-457: the next target's row is appended to the hospital's CSV.
AppendDoctor ==
    /\ pc = "drain"
    /\ t < Len(pending_targets)
    /\ LET target == pending_targets[t + 1]
           doctor_data == DoctorRow(target.url, main_dept_name, hospital_id)
       IN /\ docCsv' = [docCsv EXCEPT ![hospital_id] = Append(@, doctor_data)]
          /\ existing_links_this_hospital' =
                 existing_links_this_hospital \cup {doctor_data.link}
    /\ branchWork' = branchWork \cup {hospital_id}
    /\ pc' = "remove"
    /\ UNCHANGED <<site, progFile, pendFile, unreadable, hospCsv, hospital_range_str, start_hospital_id,
                   start_main_idx, start_sub_idx, existing_hospital_links,
                   pending_targets, hospital_id, n_main, i, main_dept_name,
                   departments_to_process, k, sub_dept_index, t, runs, saved,
                   visited, clicked, discovered, startBatch, startProg, discoveredAt, raised, origin, window>>

\* Line 459: the target is removed from the pending file.
RemoveDoctor ==
    /\ pc = "remove"
    /\ pendFile' = RemoveFromPending(load_pending_doctors,
                                     pending_targets[t + 1].url)
    /\ unreadable' = unreadable \ {"pending"}
    /\ t' = t + 1
    /\ pc' = "drain"
    /\ UNCHANGED <<site, progFile, hospCsv, docCsv, hospital_range_str, start_hospital_id,
                   start_main_idx, start_sub_idx, existing_hospital_links,
                   pending_targets, hospital_id, existing_links_this_hospital,
                   n_main, i, main_dept_name, departments_to_process, k,
                   sub_dept_index, history>>

\* Lines 449, 460: the batch is done (or was empty); the next sub department.
DrainDone ==
    /\ pc = "drain"
    /\ t >= Len(pending_targets)
    /\ pending_targets' = <<>>
    /\ origin' = "none"
    /\ k' = k + 1
    /\ t' = 0
    /\ pc' = "sub"
    /\ UNCHANGED <<site, files, hospital_range_str, start_hospital_id, start_main_idx,
                   start_sub_idx, existing_hospital_links, hospital_id,
                   existing_links_this_hospital, n_main, i, main_dept_name,
                   departments_to_process, sub_dept_index, runs, saved,
                   visited, clicked, branchWork, discovered, startBatch, startProg, discoveredAt, raised,
                   window>>

\* The process is terminated after a batch was discovered and saved in this
\* run and before the first of its targets was removed from the pending file.
InWindow ==
    /\ origin = "discovered"
    /\ pc \in {"drain", "remove"}
    /\ t = 0
    /\ pending_targets # <<>>

WindowAtStop ==
    IF InWindow
    THEN [run |-> runs, batch |-> pending_targets, hospital |-> hospital_id]
    ELSE [run |-> 0, batch |-> <<>>, hospital |-> Lo]

\* Lines 477-482: an exception of the driver ends the run; the handler logs
\* and quits the browser.
Abort_clears ==
    /\ pc \in Running
    /\ pc' = "aborted"
    /\ pendFile' = <<>>
    /\ window' = WindowAtStop
    /\ raised' = "WebDriverException"
    /\ UNCHANGED <<site, progFile, unreadable, hospCsv, docCsv, locals, runs,
                   saved, visited, clicked, branchWork, discovered, startBatch,
                   startProg, discoveredAt, origin>>
Abort ==
    /\ pc \in Running
    /\ pc' = "aborted"
    /\ window' = WindowAtStop
    /\ raised' = "WebDriverException"
    /\ UNCHANGED <<site, files, locals, runs, saved, visited, clicked,
                   branchWork, discovered, startBatch, startProg,
                   discoveredAt, origin>>

\* The process is killed: only the files survive.
Dies ==
    /\ runs < MaxRuns
    /\ pc' = "crashed"
    /\ window' = WindowAtStop
    /\ hospital_range_str' = DefaultRange
    /\ start_hospital_id' = Lo
    /\ start_main_idx' = 0
    /\ start_sub_idx' = 0
    /\ existing_hospital_links' = {}
    /\ pending_targets' = <<>>
    /\ hospital_id' = Lo
    /\ existing_links_this_hospital' = {}
    /\ n_main' = 0
    /\ i' = 0
    /\ main_dept_name' = ""
    /\ departments_to_process' = <<>>
    /\ k' = 0
    /\ sub_dept_index' = 0
    /\ t' = 0
    /\ FreshHistory
    /\ startBatch' = <<>>
    /\ startProg' = DefaultProgress
    /\ raised' = "none"
    /\ origin' = "none"
    /\ shownMains' = <<>>
    /\ shownSubs' = <<>>
    /\ shownDocs' = <<>>
    /\ UNCHANGED <<status, rerenders, runs, discoveredAt>>

Crash ==
    /\ pc \in Running
    /\ Dies
    /\ UNCHANGED files

Next ==
    \/ Start
    \/ ForHospital
    \/ RangeDone
    \/ Fetch
    \/ Enumerate
    \/ MainsDone
    \/ ForMain
    \/ SubsDone
    \/ ForSub
    \/ SaveSubProgress
    \/ Discover
    \/ AppendDoctor
    \/ RemoveDoctor
    \/ DrainDone
    \/ Abort
    \/ Crash


Spec == Init /\ [][Next]_vars

SpecExample == InitExample /\ [][Next]_vars

\* ------------------------------------------- a process that is not killed
\* The steps main() takes by itself: every call of the driver, of the files
\* and of the CSVs returns, so a run that is at one of them takes it.
Step ==
    \/ ForHospital
    \/ RangeDone
    \/ Fetch
    \/ Enumerate
    \/ MainsDone
    \/ ForMain
    \/ SubsDone
    \/ ForSub
    \/ SaveSubProgress
    \/ Discover
    \/ AppendDoctor
    \/ RemoveDoctor
    \/ DrainDone

NextLive ==
    \/ Start
    \/ ForHospital
    \/ RangeDone
    \/ Fetch
    \/ Enumerate
    \/ MainsDone
    \/ ForMain
    \/ SubsDone
    \/ ForSub
    \/ SaveSubProgress
    \/ Discover
    \/ AppendDoctor
    \/ RemoveDoctor
    \/ DrainDone
    \/ Abort

SpecLive == Init /\ [][NextLive]_vars /\ WF_vars(Step)

\* ------------------------------------------------- a page that is re-rendered
\* The sub department list the browser shows changes after the click on a sub
\* department, while its doctors are worked on: its first entry moves to the
\* end, or disappears.
StaleSubs ==
    /\ pc \in {"save", "discover", "drain", "remove"}
    /\ Len(shownSubs) > 1
    /\ rerenders < MaxRerenders
    /\ rerenders' = rerenders + 1
    /\ shownSubs' \in {Tail(shownSubs) \o <<Head(shownSubs)>>, Tail(shownSubs)}
    /\ UNCHANGED <<status, shownMains, shownDocs, files, pc, locals, history>>

\* The main department list the browser shows loses its last entry after the
\* click on a main department.
StaleMains ==
    /\ pc \in {"sub", "save", "discover", "drain", "remove"}
    /\ Len(shownMains) > 1
    /\ rerenders < MaxRerenders
    /\ rerenders' = rerenders + 1
    /\ shownMains' = SubSeq(shownMains, 1, Len(shownMains) - 1)
    /\ UNCHANGED <<status, shownSubs, shownDocs, files, pc, locals, history>>

NextStale ==
    \/ Next
    \/ StaleSubs
    \/ StaleMains

SpecStale == Init /\ [][NextStale]_vars

\* ------------------------------------------- a site that stops answering
\* Between two runs the site stops answering for a hospital it answered for
\* before: the waits of lines 156 and 380 time out, and the wait of line 401
\* finds no department filter.
Outage ==
    /\ pc \in Stopped \ {"idle"}
    /\ \E h \in Hospitals :
          /\ status[h] \in {"ok", "nodept"}
          /\ status' = [status EXCEPT ![h] = "timeout"]
    /\ UNCHANGED <<rerenders, shownMains, shownSubs, shownDocs, files, pc,
                   locals, history>>

NextOutage ==
    \/ Next
    \/ Outage

SpecOutage == Init /\ [][NextOutage]_vars

\* ------------------------------------------------ an append that fails
\* Lines 120-129, 454-457: the write of the doctor's row raises IOError, which
\* append_to_csv logs; no row is written and the drain goes on as after a
\* written row.
AppendDoctorFails ==
    /\ pc = "drain"
    /\ t < Len(pending_targets)
    /\ existing_links_this_hospital' =
           existing_links_this_hospital \cup {pending_targets[t + 1].url}
    /\ branchWork' = branchWork \cup {hospital_id}
    /\ pc' = "remove"
    /\ UNCHANGED <<site, files, hospital_range_str, start_hospital_id,
                   start_main_idx, start_sub_idx, existing_hospital_links,
                   pending_targets, hospital_id, n_main, i, main_dept_name,
                   departments_to_process, k, sub_dept_index, t, runs, saved,
                   visited, clicked, discovered, startBatch, startProg,
                   discoveredAt, raised, origin, window>>

NextSink ==
    \/ Next
    \/ AppendDoctorFails

SpecSink == Init /\ [][NextSink]_vars

\* ------------------------------------------- files that cannot be read
\* Lines 73-74: the process is killed inside save_progress, after open(.., 'w')
\* emptied the progress file and before json.dump wrote the whole record.
CrashInSave ==
    /\ \/ pc = "entity" /\ hospital_id <= end_range
       \/ pc = "save"
    /\ Dies
    /\ unreadable' = unreadable \cup {"progress"}
    /\ UNCHANGED <<progFile, pendFile, hospCsv, docCsv>>

\* Between two runs the progress file or the pending file is deleted or
\* damaged (lines 50-56, 83-89).
LoseFile ==
    /\ pc \in Stopped
    /\ \E f \in {"progress", "pending"} \ unreadable :
          unreadable' = unreadable \cup {f}
    /\ UNCHANGED <<site, progFile, pendFile, hospCsv, docCsv, pc, locals,
                   history>>

\* The range of the progress file is the default one, or one set by hand.
ConfiguredRange == <<Lo + 1, MaxHospital>>

InitFiles ==
    /\ status \in [Hospitals -> Statuses]
    /\ progFile \in {DefaultProgress,
                     save_progress(Lo + 1, 0, 0, ConfiguredRange)}
    /\ Fresh

NextFiles ==
    \/ Next
    \/ CrashInSave
    \/ LoseFile

SpecFiles == InitFiles /\ [][NextFiles]_vars

\* ------------------------------------------------------------------ claims
AllLinks == UNION {load_existing_links(docCsv[h]) : h \in Hospitals}

RowsOf(rows, link) == {n \in 1..Len(rows) : rows[n].link = link}

\* The visits of an uninterrupted run to hospital h: every main department
\* but "ALL", with its selectable sub departments, or with the pseudo sub
\* department when it has fewer than two.
Visits(h) ==
    LET mains == CatalogMains(h)
    IN UNION {
         IF IsAllMain(mains[m]) THEN {}
         ELSE LET subs == CatalogSubs(h, mains[m])
              IN IF Len(subs) <= 1
                 THEN {[mi |-> m, main |-> mains[m], sub |-> NoSubName]}
                 ELSE {[mi |-> m, main |-> mains[m], sub |-> subs[j]] :
                          j \in {x \in 1..Len(subs) : IsSelectableSub(subs[x])}}
         : m \in 1..Len(mains)}

ListedUnder(h, d) ==
    {v \in Visits(h) : d \in Range(CatalogDocs(h, v.main, v.sub))}

\* The rows of hospital h's doctors after one uninterrupted run: each doctor
\* once, under the first main department that lists it.
ExpectedDoctors(h) ==
    LET docs == UNION {Range(CatalogDocs(h, v.main, v.sub)) : v \in Visits(h)}
    IN {DoctorRow(d,
                  (CHOOSE v \in ListedUnder(h, d) :
                      \A w \in ListedUnder(h, d) : v.mi <= w.mi).main,
                  h) : d \in docs}

ExpectedHospitals ==
    {HospitalRow(h, scrape_hospital_info(h)[1]) : h \in Hospitals}

SinksAsExpected ==
    /\ Range(hospCsv) = ExpectedHospitals
    /\ \A h \in Hospitals : Range(docCsv[h]) = ExpectedDoctors(h)

\* C1 (idempotent resume): whenever a run ends with the range exhausted,
\* after any interruptions and restarts before it, the hospital CSV and every
\* hospital's doctor CSV hold, as sets of rows, the rows of one uninterrupted
\* run over the range.
C1_IdempotentResume == pc = "done" => SinksAsExpected

\* The same for the behaviours with at most one interruption (the first run,
\* and its one restart or re-run).
C1_OneInterruption == (pc = "done" /\ runs <= 2) => SinksAsExpected

\* C2 (crash-safe drain): when the process was terminated after a batch was
\* saved and before the first target was removed, then at the end of the
\* next run the doctor CSV holds exactly one row for each target of the batch.
C2_CrashSafeDrain ==
    (window.run > 0 /\ runs = window.run + 1 /\ pc = "done") =>
        \A n \in 1..Len(window.batch) :
            Cardinality(RowsOf(docCsv[window.hospital], window.batch[n].url)) = 1

\* C3 (drain before discovery): when discovery is about to be invoked the
\* pending file is empty, and once a discovery was made in a run every target
\* of the batch found at its start has its row and is out of the pending file.
C3_DrainBeforeDiscovery ==
    /\ pc = "discover" => pendFile = <<>>
    /\ discovered =>
          \A n \in 1..Len(startBatch) :
              /\ startBatch[n].url \in AllLinks
              /\ startBatch[n] \notin Range(pendFile)

C3_Witness ==
    /\ pc = "discover"
    /\ discovered
    /\ startBatch # <<>>

\* C4 (no duplicate output): no doctor link is in two rows of a hospital's
\* doctor CSV.
C4_NoDuplicateOutput ==
    \A h \in Hospitals :
        \A a, b \in 1..Len(docCsv[h]) :
            a # b => docCsv[h][a].link # docCsv[h][b].link

\* C5 (no duplicate leaves in discovery): the batch a discovery saves to the
\* pending file holds no link that is in the hospital's doctor CSV.
JustDiscovered == origin = "discovered" /\ pc = "drain" /\ t = 0

C5_NoKnownLeafInBatch ==
    JustDiscovered =>
        \A n \in 1..Len(pendFile) :
            pendFile[n].url \notin load_existing_links(docCsv[hospital_id])

C5_Witness ==
    /\ JustDiscovered
    /\ pendFile # <<>>
    /\ \E url \in Range(shownDocs) :
           url \in load_existing_links(docCsv[hospital_id])

\* C6 (monotonic position): the triples saved in a run never decrease in the
\* lexicographic order, and an index that goes back to 0 does so in a save
\* whose enclosing field grew.
LexLeq(a, b) ==
    \/ a[1] < b[1]
    \/ a[1] = b[1] /\ a[2] < b[2]
    \/ a[1] = b[1] /\ a[2] = b[2] /\ a[3] <= b[3]

C6_MonotonicPosition ==
    \A n \in 1..(Len(saved) - 1) :
        LET a == saved[n]
            b == saved[n + 1]
        IN /\ LexLeq(a, b)
           /\ (a[2] # 0 /\ b[2] = 0) => a[1] < b[1]
           /\ (a[3] # 0 /\ b[3] = 0) => (a[1] < b[1] \/ a[2] < b[2])

\* C7 (unfiltered-branch exclusion): the department clicked last is never
\* one labelled "ALL" or "NOLIMIT".
C7_NeverSelectsUnfiltered == clicked \notin {LabelAll, LabelNoLimit}

\* C8 (abort leaves state untouched): the step that aborts a run changes
\* neither the progress file nor the pending file, the pending file of an
\* aborted run holds every target of the batch in hand that has no row yet,
\* and the run started next takes the pending file as its batch.
UnappendedHeld ==
    \A n \in 1..Len(pending_targets) :
        pending_targets[n].url \notin AllLinks =>
            pending_targets[n] \in Range(pendFile)

C9_EntityOrder ==
    /\ \A n \in 1..Len(visited) : visited[n] = start_hospital_id + n - 1
    /\ pc = "done" =>
          Len(visited) = IF end_range >= start_hospital_id
                         THEN end_range - start_hospital_id + 1 ELSE 0

C9_Witness ==
    /\ pc = "done"
    /\ start_hospital_id > Lo
    /\ Len(visited) >= 2
    /\ \E n \in 1..(Len(visited) - 1) :
           status[visited[n]] \in {"notFound", "timeout"}

\* C10 (invalid entity): the fetch of a hospital that is not in the hospital
\* CSV and is reported not found or timed out appends exactly one row, which
\* marks the outcome, and goes on to the next id; that row stays the
\* hospital's only one, and no department is listed, no discovery and no
\* doctor row is made for such a hospital in the run.
InvalidAndNew(h) ==
    /\ h \notin existing_hospital_links
    /\ status[h] \in {"notFound", "timeout"}

MarkerOf(h) == IF status[h] = "notFound" THEN NameInvalid ELSE NameTimeout

C10_InvalidEntity ==
    /\ [][(pc = "fetch" /\ pc' \in Running /\ InvalidAndNew(hospital_id)) =>
            /\ hospCsv' = Append(hospCsv,
                                 HospitalRow(hospital_id, MarkerOf(hospital_id)))
            /\ docCsv' = docCsv
            /\ hospital_id' = hospital_id + 1
            /\ pc' = "entity"]_vars
    /\ [](\A n \in 1..Len(visited) :
            InvalidAndNew(visited[n]) =>
                /\ visited[n] \notin branchWork
                /\ hospital_id > visited[n] =>
                       Cardinality(RowsOf(hospCsv, visited[n])) = 1)

C10_Witness ==
    /\ pc = "done"
    /\ pending_targets = <<>>
    /\ \E n \in 1..Len(visited) :
           /\ InvalidAndNew(visited[n])
           /\ Cardinality(RowsOf(hospCsv, visited[n])) = 1
    /\ \E n \in 1..Len(visited) : visited[n] \in branchWork

\* C11 (example scenario): in the example (range 1-2, hospital 1 with the main
\* departments A and "ALL", A without sub departments, hospital 2 not found,
\* nothing crawled before) the department "ALL" is never clicked, and the
\* first run, when it ends with the range exhausted, leaves the hospital CSV
\* with one row of hospital 1 and one "invalid id" row of hospital 2, the
\* progress file at (2, 0, 0) and the pending file empty.
C11_ExampleScenario ==
    /\ clicked # LabelAll
    /\ (pc = "done" /\ runs = 1) =>
          /\ Len(hospCsv) = 2
          /\ HospitalRow(Lo, NameOk) \in Range(hospCsv)
          /\ HospitalRow(Lo + 1, NameInvalid) \in Range(hospCsv)
          /\ load_progress = save_progress(Lo + 1, 0, 0, ExampleRange)
          /\ load_pending_doctors = <<>>

C11_Witness ==
    /\ pc = "done"
    /\ runs = 1
    /\ status[Lo] = "example"
    /\ clicked = "A"
    /\ Len(docCsv[Lo]) = 2

\* C12 (resume drains at the checkpoint's coordinates): every row appended
\* from a batch that was loaded from the pending file at the start of the run
\* goes to the doctor CSV of the hospital of the checkpoint loaded with it,
\* under the main department at the checkpoint's main index.
C12_ResumeDrainsAtCheckpoint ==
    [][(pc = "drain" /\ pc' = "remove" /\ origin = "loaded") =>
          /\ hospital_id = startProg.current_hospital_id
          /\ i = startProg.main_dept_index
          /\ docCsv' = [docCsv EXCEPT ![startProg.current_hospital_id] =
                 Append(@, DoctorRow(pending_targets[t + 1].url,
                                     main_dept_name,
                                     startProg.current_hospital_id))]]_vars

\* The entity half of C12 alone.
C12_DrainsInCheckpointEntity ==
    [][(pc = "drain" /\ pc' = "remove" /\ origin = "loaded") =>
          hospital_id = startProg.current_hospital_id]_vars

\* C13 (start index rule): the main departments of the first hospital of a
\* run are iterated from the main index of the checkpoint the run loaded,
\* those of every later hospital from index 0, and the sub departments of a
\* main department of a later hospital are taken from index 0.
C13_StartIndexRule ==
    [][/\ (pc = "enum" /\ pc' = "main" /\ hospital_id = start_hospital_id) =>
             i' = startProg.main_dept_index
       /\ (pc = "enum" /\ pc' = "main" /\ hospital_id # start_hospital_id) =>
             i' = 0
       /\ (pc = "main" /\ pc' = "sub" /\ hospital_id # start_hospital_id) =>
             departments_to_process' = DeptsToProcess(shownSubs', 0)]_vars

\* C14 (the checkpoint never runs ahead of work): the positions of a
\* hospital are the (hospital, main index, sub index) of the visits of an
\* uninterrupted run, a main department with fewer than two sub departments
\* at sub index 0; a position is completed when a discovery was saved at it
\* (the code saves the pseudo sub department with index -1) and every doctor
\* it lists has a row.  The checkpoint of the progress file is, in the
\* lexicographic order, at or before every position not completed.
SubIndexOf(h, v) ==
    IF v.sub = NoSubName THEN -1
    ELSE (CHOOSE j \in 1..Len(CatalogSubs(h, v.main)) :
              CatalogSubs(h, v.main)[j] = v.sub) - 1

PositionOf(h, v) ==
    <<h, v.mi - 1, IF v.sub = NoSubName THEN 0 ELSE SubIndexOf(h, v)>>

Completed(h, v) ==
    /\ <<h, v.mi - 1, SubIndexOf(h, v)>> \in discoveredAt
    /\ Range(CatalogDocs(h, v.main, v.sub)) \subseteq
           load_existing_links(docCsv[h])

Checkpoint ==
    <<load_progress.current_hospital_id, load_progress.main_dept_index,
      load_progress.sub_dept_index>>

C14_CheckpointNotAhead ==
    \A h \in Hospitals :
        \A v \in Visits(h) :
            ~Completed(h, v) => LexLeq(Checkpoint, PositionOf(h, v))

\* C15 (remove only after a confirmed append): the step that removes a target
\* from the pending file is taken only when the target's row is in the
\* hospital's doctor CSV, and the set of known links of the hospital in hand
\* holds only links that have a row in that CSV.
C15_RemoveOnlyAfterAppend ==
    /\ [][(pc = "remove" /\ pc' = "drain") =>
             pending_targets[t + 1].url \in
                 load_existing_links(docCsv[hospital_id])]_vars
    /\ [](pc \in {"main", "sub", "save", "discover", "drain", "remove"} =>
             existing_links_this_hospital \subseteq
                 load_existing_links(docCsv[hospital_id]))

\* C16 (atomic checkpoint save): when the process is killed at a point where
\* save_progress is called, the record load_progress returns afterwards is
\* the one it returned before or the one save_progress was writing.
RecordInWriting ==
    IF pc = "save"
    THEN save_progress(hospital_id, i, sub_dept_index, hospital_range_str)
    ELSE save_progress(hospital_id, 0, 0, hospital_range_str)

C16_AtomicSave ==
    [][(pc \in {"entity", "save"} /\ pc' = "crashed") =>
          load_progress' \in {load_progress, RecordInWriting}]_vars

\* C17 (non-negative indices): every triple a run saved, and the record of the
\* progress file, has a main index and a sub index of at least 0, and the
\* start indices a run loaded are at least 0.
C17_NonNegativeIndices ==
    /\ \A n \in 1..Len(saved) : saved[n][2] >= 0 /\ saved[n][3] >= 0
    /\ load_progress.main_dept_index >= 0
    /\ load_progress.sub_dept_index >= 0
    /\ pc \in Running => start_main_idx >= 0 /\ start_sub_idx >= 0

\* C18 (stale listings are handled locally): a sub department whose index is
\* beyond the sub department list read again is passed over, with no file
\* written, and the loop goes on with the next one; and no run is ended by the
\* IndexError of a main department list that came back shorter: a run is
\* ended only by a failure of the driver.
C18_StaleHandledLocally ==
    /\ [][(/\ pc = "sub"
            /\ k < Len(departments_to_process)
            /\ departments_to_process[k + 1][1] # NoSubName
            /\ departments_to_process[k + 1][2] >= Len(shownSubs)
            /\ pc' \in Running
            /\ rerenders' = rerenders) =>
               /\ pc' = "sub"
               /\ k' = k + 1
               /\ UNCHANGED files]_vars
    /\ [](raised # "IndexError")

\* C19 (corrupt or absent state is recoverable): a run that starts while the
\* progress file cannot be read starts at the first hospital of the range the
\* file held, at main index 0 and sub index 0, with that range; a run that
\* starts while the pending file cannot be read starts with no batch; and in
\* both cases the run goes on to its hospital loop.
C19_RecoverableState ==
    [][(pc \in Stopped /\ pc' # pc /\ unreadable # {}) =>
          /\ pc' = "entity"
          /\ "progress" \in unreadable =>
                /\ hospital_range_str' = progFile.hospital_range
                /\ start_hospital_id' = progFile.hospital_range[1]
                /\ start_main_idx' = 0
                /\ start_sub_idx' = 0
          /\ "pending" \in unreadable => pending_targets' = <<>>]_vars

\* The pending file's half of C19 and the position's indices alone.
C19_EmptyBatchAndIndices ==
    [][(pc \in Stopped /\ pc' # pc /\ unreadable # {}) =>
          /\ pc' = "entity"
          /\ "progress" \in unreadable =>
                /\ start_main_idx' = 0
                /\ start_sub_idx' = 0
          /\ "pending" \in unreadable => pending_targets' = <<>>]_vars

\* C20 (one entity record): the hospital CSV holds at most one row for a
\* hospital id, and the fetch step of a hospital whose link was in the CSV
\* when the run started appends nothing to it.
C20_OneEntityRecord ==
    /\ [][(pc = "fetch" /\ hospital_id \in existing_hospital_links) =>
             hospCsv' = hospCsv]_vars
    /\ [](\A h \in Hospitals : Cardinality(RowsOf(hospCsv, h)) <= 1)

C20_Witness ==
    /\ runs >= 2
    /\ pc = "enum"
    /\ hospital_id \in existing_hospital_links
    /\ Cardinality(RowsOf(hospCsv, hospital_id)) = 1
    /\ \E n \in 1..Len(hospCsv) : hospCsv[n].name \in {NameInvalid, NameTimeout}

\* C22 (empty queue at DONE): when a run ends with the range exhausted, the
\* pending file holds no target.
C22_EmptyQueueAtDone == pc = "done" => load_pending_doctors = <<>>

\* C21 (termination): a run that is not killed ends, with the range exhausted
\* or aborted, and it ends with the range exhausted only when the hospital
\* loop is past the end of the range.
C21_Termination ==
    /\ (pc \in Running) ~> (pc \in {"done", "aborted"})
    /\ [](pc = "done" => hospital_id > hospital_range_str[2])

C21_Witness ==
    /\ pc = "done"
    /\ hospital_id > hospital_range_str[2]
    /\ runs >= 2
    /\ Len(visited) >= 2
    /\ branchWork # {}

====
